---- MODULE Spec2Model ----
(***************************************************************************)
(* A model of the beanstalkc client: the response framer (Request::send),  *)
(* the session dispatch (Beanstalkc::send and the operations built on it), *)
(* the connection life cycle (new / connect / close / reconnect) and the   *)
(* job handle (Job).  Bytes are one-character strings; a byte string is a  *)
(* sequence of them, so that framing, tokenising and number parsing are    *)
(* computed the way the code computes them.                                *)
(***************************************************************************)
EXTENDS Integers, Sequences, FiniteSets, TLC

VARIABLES
    build,       \* "debug" | "release": whether `+` is overflow-checked
    alive,       \* the Beanstalkc value exists (connect consumes it on failure)
    stream,      \* Beanstalkc.stream: "None" | "Some"
    inbuf,       \* bytes the peer has sent on the current stream, not yet read
    peerClosed,  \* the peer has closed the current stream (reads hit EOF)
    job,         \* the live Job handle borrowing the session, or NoJob
    out,         \* the chunks written to the stream by the last operation
    last,        \* what the last operation did and returned
    aborted,     \* the process has panicked / aborted
    server       \* the state of a server that follows the protocol

vars == <<build, alive, stream, inbuf, peerClosed, job, out, last, aborted, server>>

----------------------------------------------------------------------------
(* Bounds of the model.                                                    *)

\* usize and u64 are 64 bits wide in the build; the model keeps the same
\* wrap-around structure at WordBits bits (TLC's integers are 32 bits wide).
WordBits == 6

\* job ids the caller passes to the id-taking session operations: 1..MaxId
MaxId == 1

\* how many bytes fewer than offered one `write` call may accept
MaxShort == 1

\* how many jobs a server that follows the protocol is given
MaxJobs == 2

WordMod == 2 ^ WordBits

\* u64::MAX, scaled
U64Max == WordMod - 1

\* isize::MAX, scaled: the largest capacity a Vec may be asked for
ISizeMax == 2 ^ (WordBits - 1) - 1

----------------------------------------------------------------------------
(* Byte strings.                                                           *)

CRLF == <<"\r", "\n">>

SP == <<" ">>

Digits == <<"0", "1", "2", "3", "4", "5", "6", "7", "8", "9">>

IsDigit(b) == \E d \in 1..10 : Digits[d] = b

DigitVal(b) == (CHOOSE d \in 1..10 : Digits[d] = b) - 1

\* char::is_whitespace on the bytes the model uses
IsWhitespace(b) == b \in {" ", "\t", "\r", "\n"}

Min(a, b) == IF a <= b THEN a ELSE b

Take(s, n) == SubSeq(s, 1, Min(n, Len(s)))

Drop(s, n) == SubSeq(s, Min(n, Len(s)) + 1, Len(s))

RECURSIVE Dec(_)
\* decimal rendering of a number: no sign, no leading zeros
Dec(n) == IF n < 10 THEN <<Digits[n + 1]>> ELSE Dec(n \div 10) \o <<Digits[(n % 10) + 1]>>

RECURSIVE ParseDigits(_, _)
\* value of a digit string read left to right, saturating just above U64Max
ParseDigits(s, acc) ==
    IF s = <<>> THEN acc
    ELSE ParseDigits(Tail(s), Min(acc * 10 + DigitVal(Head(s)), U64Max + 1))

\* str::parse::<u64>: [ok, val]
ParseU64(s) ==
    IF s = <<>> \/ \E i \in 1..Len(s) : ~IsDigit(s[i])
    THEN [ok |-> FALSE, val |-> 0]
    ELSE LET v == ParseDigits(s, 0)
         IN  IF v > U64Max THEN [ok |-> FALSE, val |-> 0] ELSE [ok |-> TRUE, val |-> v]

RECURSIVE Join(_, _)
\* the byte strings of `parts` joined by `sep`
Join(parts, sep) ==
    IF parts = <<>> THEN <<>>
    ELSE IF Len(parts) = 1 THEN parts[1]
    ELSE parts[1] \o sep \o Join(Tail(parts), sep)

RECURSIVE SplitWhitespaceFrom(_, _, _)
SplitWhitespaceFrom(s, cur, acc) ==
    IF s = <<>> THEN (IF cur = <<>> THEN acc ELSE Append(acc, cur))
    ELSE IF IsWhitespace(Head(s))
         THEN SplitWhitespaceFrom(Tail(s), <<>>, IF cur = <<>> THEN acc ELSE Append(acc, cur))
         ELSE SplitWhitespaceFrom(Tail(s), Append(cur, Head(s)), acc)

\* str::split_whitespace: the maximal runs of non-whitespace bytes, in order
split_whitespace(s) == SplitWhitespaceFrom(s, <<>>, <<>>)

\* str::trim().is_empty()
TrimIsEmpty(s) == \A i \in 1..Len(s) : IsWhitespace(s[i])

\* AsyncBufReadExt::read_line: how many bytes it takes from `buf`: through the
\* first "\n", or everything when the stream ends first
ReadLineLen(buf) ==
    IF \E i \in 1..Len(buf) : buf[i] = "\n"
    THEN CHOOSE i \in 1..Len(buf) : buf[i] = "\n" /\ \A j \in 1..(i - 1) : buf[j] # "\n"
    ELSE Len(buf)

----------------------------------------------------------------------------
(* Status taxonomy, Response and its accessors.                            *)

\* the wire token of every status kind
StatusTable ==
    <<
       [token |-> <<"O", "K">>, status |-> "Ok"],
       [token |-> <<"R", "E", "S", "E", "R", "V", "E", "D">>, status |-> "Reserved"],
       [token |-> <<"I", "N", "S", "E", "R", "T", "E", "D">>, status |-> "Inserted"],
       [token |-> <<"U", "S", "I", "N", "G">>, status |-> "Using"],
       [token |-> <<"D", "E", "L", "E", "T", "E", "D">>, status |-> "Deleted"],
       [token |-> <<"W", "A", "T", "C", "H", "I", "N", "G">>, status |-> "Watching"],
       [token |-> <<"K", "I", "C", "K", "E", "D">>, status |-> "Kicked"],
       [token |-> <<"F", "O", "U", "N", "D">>, status |-> "Found"],
       [token |-> <<"R", "E", "L", "E", "A", "S", "E", "D">>, status |-> "Released"],
       [token |-> <<"B", "U", "R", "I", "E", "D">>, status |-> "Buried"],
       [token |-> <<"T", "O", "U", "C", "H", "E", "D">>, status |-> "Touched"],
       [token |-> <<"P", "A", "U", "S", "E", "D">>, status |-> "Paused"],
       [token |-> <<"D", "E", "A", "D", "L", "I", "N", "E", "_", "S", "O", "O", "N">>, status |-> "DeadlineSoon"],
       [token |-> <<"T", "I", "M", "E", "D", "_", "O", "U", "T">>, status |-> "TimedOut"],
       [token |-> <<"N", "O", "T", "_", "F", "O", "U", "N", "D">>, status |-> "NotFound"],
       [token |-> <<"J", "O", "B", "_", "T", "O", "O", "_", "B", "I", "G">>, status |-> "JobTooBig"],
       [token |-> <<"D", "R", "A", "I", "N", "I", "N", "G">>, status |-> "Draining"],
       [token |-> <<"E", "X", "P", "E", "C", "T", "E", "D", "_", "C", "R", "L", "F">>, status |-> "ExpectedCRLF"],
       [token |-> <<"N", "O", "T", "_", "I", "G", "N", "O", "R", "E", "D">>, status |-> "NotIgnored"],
       [token |-> <<"O", "U", "T", "_", "O", "F", "_", "M", "E", "M", "O", "R", "Y">>, status |-> "OutOfMemory"],
       [token |-> <<"I", "N", "T", "E", "R", "N", "A", "L", "_", "E", "R", "R", "O", "R">>, status |-> "InternalError"],
       [token |-> <<"B", "A", "D", "_", "F", "O", "R", "M", "A", "T">>, status |-> "BadFormat"],
       [token |-> <<"U", "N", "K", "N", "O", "W", "N", "_", "C", "O", "M", "M", "A", "N", "D">>, status |-> "UnknownCommand"]
    >>

\* Status::from_str: [ok, status]
Status_from_str(tok) ==
    IF \E i \in 1..Len(StatusTable) : StatusTable[i].token = tok
    THEN [ok |-> TRUE,
          status |-> StatusTable[CHOOSE i \in 1..Len(StatusTable) : StatusTable[i].token = tok].status]
    ELSE [ok |-> FALSE, status |-> ""]

\* the wire token of a status
TokenOf(status) ==
    StatusTable[CHOOSE i \in 1..Len(StatusTable) : StatusTable[i].status = status].token

NoBody == [some |-> FALSE, bytes |-> <<>>]

SomeBody(bytes) == [some |-> TRUE, bytes |-> bytes]

\* Response { status, params, body }
Response(status, params, body) == [status |-> status, params |-> params, body |-> body]

NoResponse == Response("", <<>>, NoBody)

\* Response::get_int_param(index), index counted from 0: [ok, val]; not ok is
\* the protocol error of a missing or non-numeric slot
get_int_param(resp, index) ==
    IF index + 1 > Len(resp.params) THEN [ok |-> FALSE, val |-> 0]
    ELSE ParseU64(resp.params[index + 1])

\* Response::get_param(index): [ok, val]
get_param(resp, index) ==
    IF index + 1 > Len(resp.params) THEN [ok |-> FALSE, val |-> <<>>]
    ELSE [ok |-> TRUE, val |-> resp.params[index + 1]]

\* Response::job_id: the integer in slot 0
job_id(resp) == get_int_param(resp, 0)

----------------------------------------------------------------------------
(* The response framer: Request::send.                                     *)

\* what Request::send returns or does:
\*   kind     "Ok" | "IoError" | "ProtocolError" | "UnexpectedResponse" | "Abort"
\*   detail   the error's text
\*   resp     the Response (kind = "Ok")
\*   lineLen  bytes taken by read_line
\*   consumed bytes taken from the stream in all
\*   eof      a read found the stream ended
\*   written  the bytes the one `write` call put on the stream
Framed(kind, detail, resp, lineLen, consumed, eof, written) ==
    [kind |-> kind, detail |-> detail, resp |-> resp, lineLen |-> lineLen,
     consumed |-> consumed, eof |-> eof, written |-> written]

\* the rule without the arm for Ok
BodyLenSlot_without_ok(status) ==
    CASE status \in {"Reserved", "Found"} -> 1
      [] OTHER -> -1

\* which argument slot carries the body length, from the status alone; -1: no body
BodyLenSlot(status) ==
    CASE status = "Ok" -> 0
      [] status = "Reserved" -> 1
      [] status = "Found" -> 1
      [] OTHER -> -1

\* the empty line reported as a protocol error
EmptyResponse_protocol(lineLen, eof, written) ==
    Framed("ProtocolError", "empty response", NoResponse, lineLen, lineLen, eof, written)

\* the empty status line
EmptyResponse(lineLen, eof, written) ==
    Framed("UnexpectedResponse", "empty response", NoResponse, lineLen, lineLen, eof, written)

\* the body read: vec![0; body_byte_count + 2], read_exact, truncate(body_byte_count)
ReadBody(bld, resp, body_byte_count, rest, lineLen, eof, written) ==
    LET sum == body_byte_count + 2
        overflow == sum > U64Max
        need == sum % WordMod
    IN  IF overflow /\ bld = "debug"
        THEN Framed("Abort", "attempt to add with overflow", NoResponse, lineLen, lineLen, eof, written)
        ELSE IF need > ISizeMax
        THEN Framed("Abort", "capacity overflow", NoResponse, lineLen, lineLen, eof, written)
        ELSE IF Len(rest) < need
        THEN Framed("IoError", "early eof", NoResponse, lineLen, lineLen + Len(rest), TRUE, written)
        ELSE Framed("Ok", "",
                    Response(resp.status, resp.params,
                             SomeBody(Take(Take(rest, need), body_byte_count))),
                    lineLen, lineLen + need, eof, written)

\* Request::send(message) on a stream holding `buf` unread; `count` is what the
\* write call accepts, `werr` whether it fails
Request_send(bld, buf, message, count, werr) ==
    IF werr THEN Framed("IoError", "write", NoResponse, 0, 0, FALSE, <<>>)
    ELSE
    LET written == Take(message, count)
        n == ReadLineLen(buf)
        line == Take(buf, n)
        eof == ~(\E i \in 1..Len(buf) : buf[i] = "\n")
        rest == Drop(buf, n)
        line_parts == split_whitespace(line)
    IN  IF TrimIsEmpty(line) THEN EmptyResponse(n, eof, written)
        ELSE
        LET st == Status_from_str(line_parts[1])
            response == Response(st.status, Tail(line_parts), NoBody)
            slot == BodyLenSlot(st.status)
        IN  IF ~st.ok
            THEN Framed("ProtocolError", "status", NoResponse, n, n, eof, written)
            ELSE IF slot < 0
            THEN Framed("Ok", "", response, n, n, eof, written)
            ELSE LET len == get_int_param(response, slot)
                 IN  IF ~len.ok
                     THEN Framed("ProtocolError", "param", NoResponse, n, n, eof, written)
                     ELSE ReadBody(bld, response, len.val, rest, n, eof, written)

----------------------------------------------------------------------------
(* The command builder: the request keyword, its arguments, the payload    *)
(* and the two status sets of every operation.                             *)

\* Command { name, args, body, expected_ok_status, expected_error_status }
Command(name, args, body, ok, err) ==
    [name |-> name, args |-> args, body |-> body,
     expected_ok_status |-> ok, expected_error_status |-> err]

\* Command::build: the keyword and the arguments joined by single spaces, the
\* line delimiter, then the payload and the delimiter again when there is one
Command_build(cmd) ==
    Join(<<cmd.name>> \o cmd.args, SP) \o CRLF
        \o (IF cmd.body.some THEN cmd.body.bytes \o CRLF ELSE <<>>)

command_put(body, priority, delay, ttr) ==
    Command(<<"p", "u", "t">>, <<Dec(priority), Dec(delay), Dec(ttr), Dec(Len(body))>>, SomeBody(body),
            {"Inserted"}, {"Buried", "ExpectedCRLF", "JobTooBig", "Draining"})

\* timeout = -1 stands for None
command_reserve(timeout) ==
    IF timeout < 0
    THEN Command(<<"r", "e", "s", "e", "r", "v", "e">>, <<>>, NoBody, {"Reserved"}, {"DeadlineSoon", "TimedOut"})
    ELSE Command(<<"r", "e", "s", "e", "r", "v", "e", "-", "w", "i", "t", "h", "-", "t", "i", "m", "e", "o", "u", "t">>, <<Dec(timeout)>>, NoBody,
                 {"Reserved"}, {"DeadlineSoon", "TimedOut"})

command_kick(bound) == Command(<<"k", "i", "c", "k">>, <<Dec(bound)>>, NoBody, {"Kicked"}, {})

command_kick_job(id) == Command(<<"k", "i", "c", "k", "-", "j", "o", "b">>, <<Dec(id)>>, NoBody, {"Kicked"}, {"NotFound"})

command_peek_job(id) == Command(<<"p", "e", "e", "k">>, <<Dec(id)>>, NoBody, {"Found"}, {"NotFound"})

command_peek_ready == Command(<<"p", "e", "e", "k", "-", "r", "e", "a", "d", "y">>, <<>>, NoBody, {"Found"}, {"NotFound"})

command_peek_delayed == Command(<<"p", "e", "e", "k", "-", "d", "e", "l", "a", "y", "e", "d">>, <<>>, NoBody, {"Found"}, {"NotFound"})

command_peek_buried == Command(<<"p", "e", "e", "k", "-", "b", "u", "r", "i", "e", "d">>, <<>>, NoBody, {"Found"}, {"NotFound"})

command_tubes == Command(<<"l", "i", "s", "t", "-", "t", "u", "b", "e", "s">>, <<>>, NoBody, {"Ok"}, {})

command_using == Command(<<"l", "i", "s", "t", "-", "t", "u", "b", "e", "-", "u", "s", "e", "d">>, <<>>, NoBody, {"Using"}, {})

command_use_tube(name) == Command(<<"u", "s", "e">>, <<name>>, NoBody, {"Using"}, {})

command_watching == Command(<<"l", "i", "s", "t", "-", "t", "u", "b", "e", "s", "-", "w", "a", "t", "c", "h", "e", "d">>, <<>>, NoBody, {"Ok"}, {})

command_watch(name) == Command(<<"w", "a", "t", "c", "h">>, <<name>>, NoBody, {"Watching"}, {})

command_ignore(name) == Command(<<"i", "g", "n", "o", "r", "e">>, <<name>>, NoBody, {"Watching"}, {"NotIgnored"})

command_stats == Command(<<"s", "t", "a", "t", "s">>, <<>>, NoBody, {"Ok"}, {})

command_stats_job(id) == Command(<<"s", "t", "a", "t", "s", "-", "j", "o", "b">>, <<Dec(id)>>, NoBody, {"Ok"}, {"NotFound"})

command_stats_tube(name) == Command(<<"s", "t", "a", "t", "s", "-", "t", "u", "b", "e">>, <<name>>, NoBody, {"Ok"}, {"NotFound"})

command_pause_tube(name, delay) ==
    Command(<<"p", "a", "u", "s", "e", "-", "t", "u", "b", "e">>, <<name, Dec(delay)>>, NoBody, {"Paused"}, {"NotFound"})

command_delete(id) == Command(<<"d", "e", "l", "e", "t", "e">>, <<Dec(id)>>, NoBody, {"Deleted"}, {"NotFound"})

command_release(id, priority, delay) ==
    Command(<<"r", "e", "l", "e", "a", "s", "e">>, <<Dec(id), Dec(priority), Dec(delay)>>, NoBody,
            {"Released"}, {"NotFound"})

command_bury(id, priority) ==
    Command(<<"b", "u", "r", "y">>, <<Dec(id), Dec(priority)>>, NoBody, {"Buried"}, {"NotFound"})

command_touch(id) == Command(<<"t", "o", "u", "c", "h">>, <<Dec(id)>>, NoBody, {"Touched"}, {"NotFound"})

command_quit == Command(<<"q", "u", "i", "t">>, <<>>, NoBody, {}, {})

\* config::DEFAULT_JOB_PRIORITY
DEFAULT_JOB_PRIORITY == 0

\* config::DEFAULT_JOB_DELAY, in seconds
DEFAULT_JOB_DELAY == 0

\* config::DEFAULT_JOB_TTR, in seconds
DEFAULT_JOB_TTR == 60

----------------------------------------------------------------------------
(* Decoding of list and dictionary bodies.                                 *)

\* u32::MAX, scaled like U64Max
U32Max == 2 ^ (WordBits \div 2) - 1

\* str::parse::<u32>: [ok, val]
ParseU32(s) ==
    LET p == ParseU64(s)
    IN  IF p.ok /\ p.val <= U32Max THEN p ELSE [ok |-> FALSE, val |-> 0]

StripCR(s) == IF s # <<>> /\ s[Len(s)] = "\r" THEN SubSeq(s, 1, Len(s) - 1) ELSE s

RECURSIVE SplitLinesFrom(_, _, _)
SplitLinesFrom(s, cur, acc) ==
    IF s = <<>> THEN (IF cur = <<>> THEN acc ELSE Append(acc, StripCR(cur)))
    ELSE IF Head(s) = "\n"
         THEN SplitLinesFrom(Tail(s), <<>>, Append(acc, StripCR(cur)))
         ELSE SplitLinesFrom(Tail(s), Append(cur, Head(s)), acc)

\* str::lines
lines(s) == SplitLinesFrom(s, <<>>, <<>>)

\* where ": " first occurs in a line, 0 when it does not
ColonAt(l) ==
    IF \E i \in 1..(Len(l) - 1) : l[i] = ":" /\ l[i + 1] = " "
    THEN CHOOSE i \in 1..(Len(l) - 1) :
             /\ l[i] = ":" /\ l[i + 1] = " "
             /\ \A j \in 1..(i - 1) : ~(l[j] = ":" /\ l[j + 1] = " ")
    ELSE 0

RECURSIVE MapOfLines(_)
\* the (key, value) pairs of the "key: value" lines, in order
MapOfLines(ls) ==
    IF ls = <<>> THEN <<>>
    ELSE LET l == Head(ls)
             c == ColonAt(l)
         IN  (IF c = 0 THEN <<>> ELSE << <<SubSeq(l, 1, c - 1), SubSeq(l, c + 2, Len(l))>> >>)
                 \o MapOfLines(Tail(ls))

\* Response::body_as_map: the dictionary of a "key: value" body
body_as_map(resp) == MapOfLines(lines(resp.body.bytes))

RECURSIVE VecOfLines(_)
VecOfLines(ls) ==
    IF ls = <<>> THEN <<>>
    ELSE LET l == Head(ls)
         IN  (IF Len(l) >= 2 /\ l[1] = "-" /\ l[2] = " " THEN <<SubSeq(l, 3, Len(l))>> ELSE <<>>)
                 \o VecOfLines(Tail(ls))

\* Response::body_as_vec: the names of a "- name" list body
body_as_vec(resp) == VecOfLines(lines(resp.body.bytes))

\* HashMap::get: [some, val]
MapGet(m, key) ==
    IF \E i \in 1..Len(m) : m[i][1] = key
    THEN [some |-> TRUE, val |-> m[CHOOSE i \in 1..Len(m) : m[i][1] = key][2]]
    ELSE [some |-> FALSE, val |-> <<>>]

----------------------------------------------------------------------------
(* Session dispatch: Beanstalkc::send.                                     *)

\* the element of a one-element set; Only({ F(x) : x \in {e} }) is F of the
\* value of e, with e evaluated once
Only(S) == CHOOSE x \in S : TRUE

\* a BeanstalkcResult: kind "Ok" or the error kind; detail the error's text;
\* resp the Response of a success; val the value an operation derives from it
Result(kind, detail, resp, val) ==
    [kind |-> kind, detail |-> detail, resp |-> resp, val |-> val]

\* Classify with the expected_error set looked up first
Classify_error_first(cmd, resp) ==
    IF resp.status \in cmd.expected_error_status
    THEN Result("CommandFailed", resp.status, NoResponse, 0)
    ELSE IF resp.status \in cmd.expected_ok_status
    THEN Result("Ok", "", resp, 0)
    ELSE Result("UnexpectedResponse", resp.status, NoResponse, 0)

\* Classify with the two status sets looked up in the other order of failure
Classify_swapped(cmd, resp) ==
    IF resp.status \in cmd.expected_ok_status
    THEN Result("Ok", "", resp, 0)
    ELSE IF resp.status \in cmd.expected_error_status
    THEN Result("UnexpectedResponse", resp.status, NoResponse, 0)
    ELSE Result("CommandFailed", resp.status, NoResponse, 0)

\* the classification of a framed response against the command's status sets
Classify(cmd, resp) ==
    IF resp.status \in cmd.expected_ok_status
    THEN Result("Ok", "", resp, 0)
    ELSE IF resp.status \in cmd.expected_error_status
    THEN Result("CommandFailed", resp.status, NoResponse, 0)
    ELSE Result("UnexpectedResponse", resp.status, NoResponse, 0)

NoFrame == Framed("None", "", NoResponse, 0, 0, FALSE, <<>>)

\* the part of the state one send acts on
World(st, buf, closed, written, abrt) ==
    [stream |-> st, inbuf |-> buf, peerClosed |-> closed, out |-> written, aborted |-> abrt]

\* what the environment does during one send: the bytes the peer sends in
\* answer, how many bytes short the write call falls, whether the write fails
Env(reply, short, werr) == [reply |-> reply, short |-> short, werr |-> werr]

\* one call of Beanstalkc::send: the world after it, its result, and a record
\* of the call (the command, the bytes that were there to read, what the
\* framer did, the result)
Sent(w, cmd, buf, fr, res) ==
    [w |-> w, res |-> res, call |-> [cmd |-> cmd, buf |-> buf, fr |-> fr, res |-> res]]

\* the stream given up when the framer reports an I/O error
SendReturn_drops_stream(w, cmd, buf, fr) ==
    Sent(World(IF fr.kind = "IoError" THEN "None" ELSE w.stream,
               Drop(buf, fr.consumed), w.peerClosed \/ fr.eof,
               IF fr.written = <<>> THEN w.out ELSE Append(w.out, fr.written),
               fr.kind = "Abort"),
         cmd, buf, fr,
         IF fr.kind = "Ok" THEN Classify(cmd, fr.resp)
         ELSE Result(fr.kind, fr.detail, NoResponse, 0))

\* a framer error reported as an unexpected response
SendReturn_maps_error(w, cmd, buf, fr) ==
    Sent(World(w.stream, Drop(buf, fr.consumed), w.peerClosed \/ fr.eof,
               IF fr.written = <<>> THEN w.out ELSE Append(w.out, fr.written),
               fr.kind = "Abort"),
         cmd, buf, fr,
         IF fr.kind = "Ok" THEN Classify(cmd, fr.resp)
         ELSE IF fr.kind = "ProtocolError"
         THEN Result("UnexpectedResponse", fr.detail, NoResponse, 0)
         ELSE Result(fr.kind, fr.detail, NoResponse, 0))

\* the command written once more when the first attempt fails
SendReturn_retries(w, cmd, buf, fr) ==
    Sent(World(w.stream, Drop(buf, fr.consumed), w.peerClosed \/ fr.eof,
               IF fr.written = <<>> THEN w.out
               ELSE IF fr.kind = "Ok" THEN Append(w.out, fr.written)
               ELSE w.out \o <<fr.written, fr.written>>,
               fr.kind = "Abort"),
         cmd, buf, fr,
         IF fr.kind = "Ok" THEN Classify(cmd, fr.resp)
         ELSE Result(fr.kind, fr.detail, NoResponse, 0))

\* the rest of Beanstalkc::send once Request::send has returned fr: `?`, then
\* the classification
SendReturn(w, cmd, buf, fr) ==
    Sent(World(w.stream, Drop(buf, fr.consumed), w.peerClosed \/ fr.eof,
               IF fr.written = <<>> THEN w.out ELSE Append(w.out, fr.written),
               fr.kind = "Abort"),
         cmd, buf, fr,
         IF fr.kind = "Ok" THEN Classify(cmd, fr.resp)
         ELSE Result(fr.kind, fr.detail, NoResponse, 0))

\* send without the check that a stream is there
Beanstalkc_send_unchecked(bld, w, cmd, e) ==
    Only({ SendReturn(w, cmd, w.inbuf \o e.reply, fr) :
           fr \in {Request_send(bld, w.inbuf \o e.reply, Command_build(cmd),
                                Len(Command_build(cmd)) - e.short, e.werr)} })

\* Beanstalkc::send(cmd) in world w under environment e
Beanstalkc_send(bld, w, cmd, e) ==
    IF w.stream = "None"
    THEN Sent(w, cmd, <<>>, NoFrame,
              Result("ConnectionError", "invalid connection", NoResponse, 0))
    ELSE Only({ SendReturn(w, cmd, w.inbuf \o e.reply, fr) :
                fr \in {Request_send(bld, w.inbuf \o e.reply, Command_build(cmd),
                                     Len(Command_build(cmd)) - e.short, e.werr)} })

----------------------------------------------------------------------------
(* The session operations: each is one send and what it makes of the       *)
(* Response.  An operation yields the world after it, the sends it made,   *)
(* its result and the Job it hands out.                                    *)

NoJob == [some |-> FALSE, id |-> 0, body |-> <<>>, reserved |-> FALSE]

\* Job::new(conn, job_id, body, reserved)
Job_new(id, body, reserved) == [some |-> TRUE, id |-> id, body |-> body, reserved |-> reserved]

Done(w, calls, res, jb) == [w |-> w, calls |-> calls, res |-> res, job |-> jb]

\* the process stopped inside the operation: nothing is returned
Aborted == Result("Abort", "", NoResponse, 0)

\* the error of a send, passed on by `?`, map or and_then
Failed(s) ==
    IF s.w.aborted THEN Aborted ELSE Result(s.res.kind, s.res.detail, NoResponse, 0)

\* a value taken from the Response of a successful send: p is [ok, val]
Derived(s, p) ==
    IF s.w.aborted \/ s.res.kind # "Ok" THEN Failed(s)
    ELSE IF ~p.ok THEN Result("ProtocolError", "param", NoResponse, 0)
    ELSE Result("Ok", "", NoResponse, p.val)

\* send(cmd).map(|_| ())
SendUnit(w, cmd, e) ==
    Only({ Done(s.w, <<s.call>>, Failed(s), NoJob) : s \in {Beanstalkc_send(build, w, cmd, e)} })

\* send(cmd).and_then(|r| r.get_int_param(slot))
SendInt(w, cmd, slot, e) ==
    Only({ Done(s.w, <<s.call>>, Derived(s, get_int_param(s.res.resp, slot)), NoJob) :
           s \in {Beanstalkc_send(build, w, cmd, e)} })

\* send(cmd).and_then(|r| r.get_param(0))
SendParam(w, cmd, e) ==
    Only({ Done(s.w, <<s.call>>, Derived(s, get_param(s.res.resp, 0)), NoJob) :
           s \in {Beanstalkc_send(build, w, cmd, e)} })

\* send(cmd)?.body_as_map()
SendMap(w, cmd, e) ==
    Only({ Done(s.w, <<s.call>>, Derived(s, [ok |-> TRUE, val |-> body_as_map(s.res.resp)]),
                NoJob) :
           s \in {Beanstalkc_send(build, w, cmd, e)} })

\* send(cmd)?.body_as_vec()
SendVec(w, cmd, e) ==
    Only({ Done(s.w, <<s.call>>, Derived(s, [ok |-> TRUE, val |-> body_as_vec(s.res.resp)]),
                NoJob) :
           s \in {Beanstalkc_send(build, w, cmd, e)} })

\* send(cmd)?, then Job::new(self, resp.job_id()?, resp.body.unwrap_or_default(), reserved)
SendJob(w, cmd, reserved, e) ==
    Only({ Done(s.w, <<s.call>>, Derived(s, job_id(s.res.resp)),
                IF ~s.w.aborted /\ s.res.kind = "Ok" /\ job_id(s.res.resp).ok
                THEN Job_new(job_id(s.res.resp).val, s.res.resp.body.bytes, reserved)
                ELSE NoJob) :
           s \in {Beanstalkc_send(build, w, cmd, e)} })

Beanstalkc_put(w, body, priority, delay, ttr, e) ==
    SendInt(w, command_put(body, priority, delay, ttr), 0, e)

Beanstalkc_put_default(w, body, e) ==
    Beanstalkc_put(w, body, DEFAULT_JOB_PRIORITY, DEFAULT_JOB_DELAY, DEFAULT_JOB_TTR, e)

\* reserve handing out the Job as not reserved
Beanstalkc_reserve_unreserved(w, e) == SendJob(w, command_reserve(-1), FALSE, e)

Beanstalkc_reserve(w, e) == SendJob(w, command_reserve(-1), TRUE, e)

Beanstalkc_reserve_with_timeout(w, timeout, e) == SendJob(w, command_reserve(timeout), TRUE, e)

Beanstalkc_kick(w, bound, e) == SendInt(w, command_kick(bound), 0, e)

Beanstalkc_kick_job(w, id, e) == SendUnit(w, command_kick_job(id), e)

\* do_peek handing out the Job as reserved
Beanstalkc_do_peek_reserved(w, cmd, e) == SendJob(w, cmd, TRUE, e)

Beanstalkc_do_peek(w, cmd, e) == SendJob(w, cmd, FALSE, e)

Beanstalkc_peek(w, id, e) == Beanstalkc_do_peek(w, command_peek_job(id), e)

Beanstalkc_peek_ready(w, e) == Beanstalkc_do_peek(w, command_peek_ready, e)

Beanstalkc_peek_delayed(w, e) == Beanstalkc_do_peek(w, command_peek_delayed, e)

Beanstalkc_peek_buried(w, e) == Beanstalkc_do_peek(w, command_peek_buried, e)

Beanstalkc_tubes(w, e) == SendVec(w, command_tubes, e)

Beanstalkc_using(w, e) == SendParam(w, command_using, e)

Beanstalkc_use_tube(w, name, e) == SendParam(w, command_use_tube(name), e)

Beanstalkc_watching(w, e) == SendVec(w, command_watching, e)

Beanstalkc_watch(w, name, e) == SendInt(w, command_watch(name), 0, e)

Beanstalkc_ignore(w, name, e) == SendInt(w, command_ignore(name), 0, e)

Beanstalkc_stats(w, e) == SendMap(w, command_stats, e)

Beanstalkc_stats_tube(w, name, e) == SendMap(w, command_stats_tube(name), e)

\* pause_tube with the error of its send dropped, as close does
Beanstalkc_pause_tube_ignores_error(w, name, delay, e) ==
    Only({ Done(s.w, <<s.call>>,
                IF s.w.aborted THEN Aborted ELSE Result("Ok", "", NoResponse, 0), NoJob) :
           s \in {Beanstalkc_send(build, w, command_pause_tube(name, delay), e)} })

Beanstalkc_pause_tube(w, name, delay, e) == SendUnit(w, command_pause_tube(name, delay), e)

Beanstalkc_delete(w, id, e) == SendUnit(w, command_delete(id), e)

Beanstalkc_release(w, id, priority, delay, e) ==
    SendUnit(w, command_release(id, priority, delay), e)

Beanstalkc_release_default(w, id, e) ==
    Beanstalkc_release(w, id, DEFAULT_JOB_PRIORITY, DEFAULT_JOB_DELAY, e)

Beanstalkc_bury(w, id, priority, e) == SendUnit(w, command_bury(id, priority), e)

Beanstalkc_bury_default(w, id, e) == Beanstalkc_bury(w, id, DEFAULT_JOB_PRIORITY, e)

Beanstalkc_touch(w, id, e) == SendUnit(w, command_touch(id), e)

Beanstalkc_stats_job(w, id, e) == SendMap(w, command_stats_job(id), e)

\* Beanstalkc::close: the quit command, its result discarded
Beanstalkc_close(w, e) ==
    Only({ Done(s.w, <<s.call>>,
                IF s.w.aborted THEN Aborted ELSE Result("Ok", "", NoResponse, 0), NoJob) :
           s \in {Beanstalkc_send(build, w, command_quit, e)} })

----------------------------------------------------------------------------
(* The job handle.                                                         *)

\* the flag cleared whatever the call returned
Unreserve_always(j, s) == [j EXCEPT !.reserved = FALSE]

\* the flag set to whether the call failed
Unreserve_inverted(j, s) == [j EXCEPT !.reserved = (s.res.kind # "Ok")]

\* the Job after a session call that ended as s: no longer reserved if it succeeded
Unreserve(j, s) == IF s.res.kind = "Ok" THEN [j EXCEPT !.reserved = FALSE] ELSE j

\* Job::delete guarded by the reserved flag, as release and bury are
Job_delete_guarded(w, j, e) ==
    IF ~j.reserved THEN Done(w, <<>>, Result("Ok", "", NoResponse, 0), j)
    ELSE Only({ Done(s.w, s.calls, s.res, Unreserve(j, s)) : s \in {Beanstalkc_delete(w, j.id, e)} })

\* Job::delete
Job_delete(w, j, e) ==
    Only({ Done(s.w, s.calls, s.res, Unreserve(j, s)) : s \in {Beanstalkc_delete(w, j.id, e)} })

\* Job::release(priority, delay)
Job_release(w, j, priority, delay, e) ==
    IF ~j.reserved THEN Done(w, <<>>, Result("Ok", "", NoResponse, 0), j)
    ELSE Only({ Done(s.w, s.calls, s.res, Unreserve(j, s)) :
                s \in {Beanstalkc_release(w, j.id, priority, delay, e)} })

\* Job::bury without the guard on the reserved flag
Job_bury_unguarded(w, j, priority, e) ==
    Only({ Done(s.w, s.calls, s.res, Unreserve(j, s)) :
           s \in {Beanstalkc_bury(w, j.id, priority, e)} })

\* Job::bury(priority)
Job_bury(w, j, priority, e) ==
    IF ~j.reserved THEN Done(w, <<>>, Result("Ok", "", NoResponse, 0), j)
    ELSE Only({ Done(s.w, s.calls, s.res, Unreserve(j, s)) :
                s \in {Beanstalkc_bury(w, j.id, priority, e)} })

\* Job::kick guarded by the reserved flag, as touch is
Job_kick_guarded(w, j, e) ==
    IF ~j.reserved THEN Done(w, <<>>, Result("Ok", "", NoResponse, 0), j)
    ELSE Only({ Done(s.w, s.calls, s.res, j) : s \in {Beanstalkc_kick_job(w, j.id, e)} })

\* Job::kick
Job_kick(w, j, e) ==
    Only({ Done(s.w, s.calls, s.res, j) : s \in {Beanstalkc_kick_job(w, j.id, e)} })

\* Job::touch
Job_touch(w, j, e) ==
    IF ~j.reserved THEN Done(w, <<>>, Result("Ok", "", NoResponse, 0), j)
    ELSE Only({ Done(s.w, s.calls, s.res, j) : s \in {Beanstalkc_touch(w, j.id, e)} })

\* Job::stats
Job_stats(w, j, e) ==
    Only({ Done(s.w, s.calls, s.res, j) : s \in {Beanstalkc_stats_job(w, j.id, e)} })

Pri == <<"p", "r", "i">>

\* the priority of the stats ignored
PriorityOf_default(stats) == DEFAULT_JOB_PRIORITY

\* stats.get("pri").map(|x| x.parse().unwrap_or(DEFAULT_JOB_PRIORITY))
\*      .unwrap_or(DEFAULT_JOB_PRIORITY)
PriorityOf(stats) ==
    IF MapGet(stats, Pri).some /\ ParseU32(MapGet(stats, Pri).val).ok
    THEN ParseU32(MapGet(stats, Pri).val).val
    ELSE DEFAULT_JOB_PRIORITY

\* Job::priority: the `pri` of the job's stats (an empty dictionary when the
\* stats call fails), or DEFAULT_JOB_PRIORITY
Job_priority(w, j, e) ==
    Only({ Done(s.w, s.calls,
                IF s.w.aborted THEN Aborted
                ELSE Result("Ok", "", NoResponse,
                            PriorityOf(IF s.res.kind = "Ok" THEN s.res.val ELSE <<>>)),
                j) :
           s \in {Job_stats(w, j, e)} })

\* Job::release_default
Job_release_default(w, j, e1, e2) ==
    Only({ IF p.w.aborted THEN p
           ELSE Only({ Done(r.w, p.calls \o r.calls, r.res, r.job) :
                       r \in {Job_release(p.w, j, p.res.val, DEFAULT_JOB_DELAY, e2)} }) :
           p \in {Job_priority(w, j, e1)} })

\* Job::bury_default
Job_bury_default(w, j, e1, e2) ==
    Only({ IF p.w.aborted THEN p
           ELSE Only({ Done(r.w, p.calls \o r.calls, r.res, r.job) :
                       r \in {Job_bury(p.w, j, p.res.val, e2)} }) :
           p \in {Job_priority(w, j, e1)} })

----------------------------------------------------------------------------
(* The peer: what it may send in answer to a command.                      *)

Hello == <<"h", "e", "l", "l", "o">>

Jobs == <<"j", "o", "b", "s">>

Bogus == <<"B", "O", "G", "U", "S">>

StatsBody == <<"-", "-", "-", "\n", "p", "r", "i", ":", " ", "5", "\n">>

StatsBodyBadPri == <<"-", "-", "-", "\n", "p", "r", "i", ":", " ", "x", "\n">>

TubesBody == <<"-", "-", "-", "\n", "-", " ", "j", "o", "b", "s", "\n">>

\* one status line
Line(tokens) == Join(tokens, SP) \o CRLF

\* a status line whose last argument is the length of the body that follows
Bodied(status, args, body) ==
    Line(<<TokenOf(status)>> \o args \o <<Dec(Len(body))>>) \o body \o CRLF

\* the well-formed responses that carry a status
StatusReplies(status) ==
    CASE status = "Ok" ->
             {Bodied("Ok", <<>>, StatsBody), Bodied("Ok", <<>>, StatsBodyBadPri),
              Bodied("Ok", <<>>, TubesBody)}
      [] status = "Reserved" -> {Bodied("Reserved", <<Dec(42)>>, Hello)}
      [] status = "Found" -> {Bodied("Found", <<Dec(7)>>, CRLF)}
      [] status = "Inserted" -> {Line(<<TokenOf(status), Dec(7)>>)}
      [] status = "Using" -> {Line(<<TokenOf(status), Jobs>>)}
      [] status = "Watching" -> {Line(<<TokenOf(status), Dec(2)>>)}
      [] status = "Kicked" -> {Line(<<TokenOf(status), Dec(1)>>)}
      [] OTHER -> {Line(<<TokenOf(status)>>)}

\* responses a peer that does not follow the protocol may send to any command
Anomalies ==
    { CRLF,
      Line(<<Bogus>>),
      Line(<<TokenOf("OutOfMemory")>>),
      Line(<<TokenOf("Found"), Dec(7), <<"x">> >>) \o <<"h">> \o CRLF \o <<"h">> \o CRLF,
      Line(<<TokenOf("Deleted")>>) \o Line(<<TokenOf("Paused")>>),
      Bodied("Found", <<Dec(7)>>, CRLF),
      Take(Bodied("Reserved", <<Dec(42)>>, Hello), Len(Bodied("Reserved", <<Dec(42)>>, Hello)) - 4),
      Line(<<TokenOf("Ok"), Dec(U64Max)>>) \o <<"x">>,
      Line(<<TokenOf("Ok"), Dec(ISizeMax - 1)>>) }

Replies(cmd) ==
    UNION {StatusReplies(s) : s \in cmd.expected_ok_status \cup cmd.expected_error_status}
        \cup Anomalies

\* the environments of one send of cmd in world w.  The peer answers a command
\* only when the client has read all it sent before; an empty answer on a
\* drained stream is the peer closing it.  A peer that was sent only part of a
\* command answers nothing.  A write fails only on a closed stream.
Envs(w, cmd) ==
    IF w.stream = "None" \/ w.aborted THEN {Env(<<>>, 0, FALSE)}
    ELSE { Env(r, 0, FALSE) :
             r \in (IF w.inbuf = <<>> /\ ~w.peerClosed THEN Replies(cmd) \cup {<<>>} ELSE {<<>>}) }
         \cup { Env(<<>>, sh, FALSE) : sh \in 1..MaxShort }
         \cup (IF w.peerClosed THEN {Env(<<>>, 0, TRUE)} ELSE {})

----------------------------------------------------------------------------
(* A server that follows the protocol, with this client as its only one.   *)
(* Jobs are put in the tube `default` with one priority and no delay, so   *)
(* the ready jobs are served first in, first out.                          *)

DefaultTube == <<"d", "e", "f", "a", "u", "l", "t">>

\* next: the id of the next job; ready, held: the jobs ([id, body]) that are
\* ready and that the connection has reserved; watched: its watch list
ServerInit == [next |-> 1, ready |-> <<>>, held |-> <<>>, watched |-> {DefaultTube}]

\* the jobs of the server that have this id
ServerJobs(sv, id) ==
    {sv.ready[i] : i \in {k \in 1..Len(sv.ready) : sv.ready[k].id = id}}
        \cup {sv.held[i] : i \in {k \in 1..Len(sv.held) : sv.held[k].id = id}}

\* what the server answers to the command
ServerReply(sv, cmd) ==
    CASE cmd.name = <<"p", "u", "t">> -> Line(<<TokenOf("Inserted"), Dec(sv.next)>>)
      [] cmd.name = <<"r", "e", "s", "e", "r", "v", "e">> ->
             Bodied("Reserved", <<Dec(Head(sv.ready).id)>>, Head(sv.ready).body)
      [] cmd.name = <<"d", "e", "l", "e", "t", "e">> ->
             IF ServerJobs(sv, ParseU64(cmd.args[1]).val) # {}
             THEN Line(<<TokenOf("Deleted")>>) ELSE Line(<<TokenOf("NotFound")>>)
      [] cmd.name = <<"w", "a", "t", "c", "h">> ->
             Line(<<TokenOf("Watching"), Dec(Cardinality(sv.watched \cup {cmd.args[1]}))>>)
      [] cmd.name = <<"i", "g", "n", "o", "r", "e">> ->
             IF sv.watched \ {cmd.args[1]} = {}
             THEN Line(<<TokenOf("NotIgnored")>>)
             ELSE Line(<<TokenOf("Watching"), Dec(Cardinality(sv.watched \ {cmd.args[1]}))>>)

\* the server after the command
ServerStep(sv, cmd) ==
    CASE cmd.name = <<"p", "u", "t">> ->
             [sv EXCEPT !.next = @ + 1,
                        !.ready = Append(@, [id |-> sv.next, body |-> cmd.body.bytes])]
      [] cmd.name = <<"r", "e", "s", "e", "r", "v", "e">> ->
             [sv EXCEPT !.ready = Tail(@), !.held = Append(@, Head(sv.ready))]
      [] cmd.name = <<"d", "e", "l", "e", "t", "e">> ->
             [sv EXCEPT !.ready = SelectSeq(@, LAMBDA j : j.id # ParseU64(cmd.args[1]).val),
                        !.held = SelectSeq(@, LAMBDA j : j.id # ParseU64(cmd.args[1]).val)]
      [] cmd.name = <<"w", "a", "t", "c", "h">> ->
             [sv EXCEPT !.watched = @ \cup {cmd.args[1]}]
      [] cmd.name = <<"i", "g", "n", "o", "r", "e">> ->
             IF sv.watched \ {cmd.args[1]} = {} THEN sv
             ELSE [sv EXCEPT !.watched = @ \ {cmd.args[1]}]

\* one send to the server: it receives the command and answers it, or the
\* transport takes only a part of the command and the server answers nothing
ServerEnvs(cmd) ==
    {Env(ServerReply(server, cmd), 0, FALSE)} \cup {Env(<<>>, sh, FALSE) : sh \in 1..MaxShort}

----------------------------------------------------------------------------
(* The state machine.                                                      *)

\* what the caller passes
Ids == 1..MaxId

Tubes == {Jobs}

Payloads == {<<"h", "\r", "\n">>}

Priorities == {3}

\* durations, in whole seconds
Seconds == {2}

KickBounds == {1}

Snapshot == [job |-> job, stream |-> stream, inbuf |-> inbuf, peerClosed |-> peerClosed]

Init ==
    /\ build \in {"debug", "release"}
    /\ alive = TRUE
    /\ stream = "None"
    /\ inbuf = <<>>
    /\ peerClosed = FALSE
    /\ job = NoJob
    /\ out = <<>>
    /\ aborted = FALSE
    /\ last = [op |-> "new", calls |-> <<>>, res |-> Result("Ok", "", NoResponse, 0),
               connect |-> "none",
               before |-> [job |-> NoJob, stream |-> "None", inbuf |-> <<>>,
                           peerClosed |-> FALSE]]
    /\ server = ServerInit

\* the world an operation starts in
W0 == World(stream, inbuf, peerClosed, <<>>, FALSE)

\* a session operation may start: the session exists and no Job borrows it
SessionFree == alive /\ ~aborted /\ ~job.some

\* a Job operation may start
JobLive == alive /\ ~aborted /\ job.some

\* the state of the client after operation `op` ended as h
Returned(op, h) ==
    /\ stream' = h.w.stream
    /\ inbuf' = h.w.inbuf
    /\ peerClosed' = h.w.peerClosed
    /\ out' = h.w.out
    /\ aborted' = h.w.aborted
    /\ job' = h.job
    /\ last' = [op |-> op, calls |-> h.calls, res |-> h.res, connect |-> "none",
                before |-> Snapshot]
    /\ UNCHANGED <<build, alive>>

\* the state after operation `op` ended as h
Commit(op, h) == Returned(op, h) /\ UNCHANGED server

\* Beanstalkc::new
New ==
    /\ ~aborted /\ ~job.some
    /\ alive' = TRUE
    /\ stream' = "None"
    /\ inbuf' = <<>>
    /\ peerClosed' = FALSE
    /\ out' = <<>>
    /\ job' = NoJob
    /\ last' = [op |-> "new", calls |-> <<>>, res |-> Result("Ok", "", NoResponse, 0),
                connect |-> "none", before |-> Snapshot]
    /\ UNCHANGED <<build, aborted, server>>

\* connect keeping what was buffered from the prior stream
ConnectStep_keeps_buffer(op, w, calls, ok) ==
    /\ alive' = ok
    /\ stream' = IF ok THEN "Some" ELSE "None"
    /\ inbuf' = w.inbuf
    /\ peerClosed' = FALSE
    /\ out' = w.out
    /\ job' = NoJob
    /\ last' = [op |-> op, calls |-> calls,
                res |-> IF ok THEN Result("Ok", "", NoResponse, 0)
                        ELSE Result("ConnectionError", "connect", NoResponse, 0),
                connect |-> IF ok THEN "ok" ELSE "failed",
                before |-> Snapshot]
    /\ UNCHANGED <<build, aborted>>

\* Beanstalkc::connect after the sends `calls` that left world w: TcpStream::connect
\* succeeds (a new stream, nothing read or sent on it yet) or fails (the error is
\* returned and the session, moved into the call, is gone)
ConnectStep(op, w, calls, ok) ==
    /\ alive' = ok
    /\ stream' = IF ok THEN "Some" ELSE "None"
    /\ inbuf' = <<>>
    /\ peerClosed' = FALSE
    /\ out' = w.out
    /\ job' = NoJob
    /\ last' = [op |-> op, calls |-> calls,
                res |-> IF ok THEN Result("Ok", "", NoResponse, 0)
                        ELSE Result("ConnectionError", "connect", NoResponse, 0),
                connect |-> IF ok THEN "ok" ELSE "failed",
                before |-> Snapshot]
    /\ UNCHANGED <<build, aborted>>

Connect ==
    /\ SessionFree
    /\ \E ok \in BOOLEAN : ConnectStep("connect", W0, <<>>, ok)
    /\ UNCHANGED server

\* Beanstalkc::reconnect: close, then connect
Reconnect ==
    /\ SessionFree
    /\ \E e \in Envs(W0, command_quit) :
         \E c \in {Beanstalkc_close(W0, e)} :
           IF c.w.aborted THEN Returned("reconnect", c)
           ELSE \E ok \in BOOLEAN : ConnectStep("reconnect", c.w, c.calls, ok)
    /\ UNCHANGED server

Put ==
    /\ SessionFree
    /\ \E body \in Payloads, p \in Priorities, d \in Seconds, t \in Seconds :
         \E e \in Envs(W0, command_put(body, p, d, t)) :
           \E h \in {Beanstalkc_put(W0, body, p, d, t, e)} : Commit("put", h)

PutDefault ==
    /\ SessionFree
    /\ \E body \in Payloads :
         \E e \in Envs(W0, command_put(body, DEFAULT_JOB_PRIORITY, DEFAULT_JOB_DELAY,
                                       DEFAULT_JOB_TTR)) :
           \E h \in {Beanstalkc_put_default(W0, body, e)} : Commit("put_default", h)

Reserve ==
    /\ SessionFree
    /\ \E e \in Envs(W0, command_reserve(-1)) : \E h \in {Beanstalkc_reserve(W0, e)} : Commit("reserve", h)

ReserveWithTimeout ==
    /\ SessionFree
    /\ \E t \in Seconds : \E e \in Envs(W0, command_reserve(t)) :
         \E h \in {Beanstalkc_reserve_with_timeout(W0, t, e)} : Commit("reserve_with_timeout", h)

Kick ==
    /\ SessionFree
    /\ \E n \in KickBounds : \E e \in Envs(W0, command_kick(n)) :
         \E h \in {Beanstalkc_kick(W0, n, e)} : Commit("kick", h)

KickJob ==
    /\ SessionFree
    /\ \E id \in Ids : \E e \in Envs(W0, command_kick_job(id)) :
         \E h \in {Beanstalkc_kick_job(W0, id, e)} : Commit("kick_job", h)

Peek ==
    /\ SessionFree
    /\ \E id \in Ids : \E e \in Envs(W0, command_peek_job(id)) :
         \E h \in {Beanstalkc_peek(W0, id, e)} : Commit("peek", h)

PeekReady ==
    /\ SessionFree
    /\ \E e \in Envs(W0, command_peek_ready) : \E h \in {Beanstalkc_peek_ready(W0, e)} : Commit("peek_ready", h)

PeekDelayed ==
    /\ SessionFree
    /\ \E e \in Envs(W0, command_peek_delayed) :
         \E h \in {Beanstalkc_peek_delayed(W0, e)} : Commit("peek_delayed", h)

PeekBuried ==
    /\ SessionFree
    /\ \E e \in Envs(W0, command_peek_buried) :
         \E h \in {Beanstalkc_peek_buried(W0, e)} : Commit("peek_buried", h)

ListTubes ==
    /\ SessionFree
    /\ \E e \in Envs(W0, command_tubes) : \E h \in {Beanstalkc_tubes(W0, e)} : Commit("tubes", h)

Using ==
    /\ SessionFree
    /\ \E e \in Envs(W0, command_using) : \E h \in {Beanstalkc_using(W0, e)} : Commit("using", h)

UseTube ==
    /\ SessionFree
    /\ \E t \in Tubes : \E e \in Envs(W0, command_use_tube(t)) :
         \E h \in {Beanstalkc_use_tube(W0, t, e)} : Commit("use_tube", h)

Watching ==
    /\ SessionFree
    /\ \E e \in Envs(W0, command_watching) : \E h \in {Beanstalkc_watching(W0, e)} : Commit("watching", h)

Watch ==
    /\ SessionFree
    /\ \E t \in Tubes : \E e \in Envs(W0, command_watch(t)) :
         \E h \in {Beanstalkc_watch(W0, t, e)} : Commit("watch", h)

Ignore ==
    /\ SessionFree
    /\ \E t \in Tubes : \E e \in Envs(W0, command_ignore(t)) :
         \E h \in {Beanstalkc_ignore(W0, t, e)} : Commit("ignore", h)

Stats ==
    /\ SessionFree
    /\ \E e \in Envs(W0, command_stats) : \E h \in {Beanstalkc_stats(W0, e)} : Commit("stats", h)

StatsTube ==
    /\ SessionFree
    /\ \E t \in Tubes : \E e \in Envs(W0, command_stats_tube(t)) :
         \E h \in {Beanstalkc_stats_tube(W0, t, e)} : Commit("stats_tube", h)

PauseTube ==
    /\ SessionFree
    /\ \E t \in Tubes, d \in Seconds : \E e \in Envs(W0, command_pause_tube(t, d)) :
         \E h \in {Beanstalkc_pause_tube(W0, t, d, e)} : Commit("pause_tube", h)

Delete ==
    /\ SessionFree
    /\ \E id \in Ids : \E e \in Envs(W0, command_delete(id)) :
         \E h \in {Beanstalkc_delete(W0, id, e)} : Commit("delete", h)

ReleaseDefault ==
    /\ SessionFree
    /\ \E id \in Ids :
         \E e \in Envs(W0, command_release(id, DEFAULT_JOB_PRIORITY, DEFAULT_JOB_DELAY)) :
           \E h \in {Beanstalkc_release_default(W0, id, e)} : Commit("release_default", h)

Release ==
    /\ SessionFree
    /\ \E id \in Ids, p \in Priorities, d \in Seconds :
         \E e \in Envs(W0, command_release(id, p, d)) :
           \E h \in {Beanstalkc_release(W0, id, p, d, e)} : Commit("release", h)

BuryDefault ==
    /\ SessionFree
    /\ \E id \in Ids : \E e \in Envs(W0, command_bury(id, DEFAULT_JOB_PRIORITY)) :
         \E h \in {Beanstalkc_bury_default(W0, id, e)} : Commit("bury_default", h)

Bury ==
    /\ SessionFree
    /\ \E id \in Ids, p \in Priorities : \E e \in Envs(W0, command_bury(id, p)) :
         \E h \in {Beanstalkc_bury(W0, id, p, e)} : Commit("bury", h)

Touch ==
    /\ SessionFree
    /\ \E id \in Ids : \E e \in Envs(W0, command_touch(id)) :
         \E h \in {Beanstalkc_touch(W0, id, e)} : Commit("touch", h)

StatsJob ==
    /\ SessionFree
    /\ \E id \in Ids : \E e \in Envs(W0, command_stats_job(id)) :
         \E h \in {Beanstalkc_stats_job(W0, id, e)} : Commit("stats_job", h)

\* the caller lets go of the Job; the session is free again
DropJob ==
    /\ JobLive
    /\ job' = NoJob
    /\ out' = <<>>
    /\ last' = [op |-> "drop", calls |-> <<>>, res |-> Result("Ok", "", NoResponse, 0),
                connect |-> "none", before |-> Snapshot]
    /\ UNCHANGED <<build, alive, stream, inbuf, peerClosed, aborted, server>>

JobDelete ==
    /\ JobLive
    /\ \E e \in Envs(W0, command_delete(job.id)) : \E h \in {Job_delete(W0, job, e)} : Commit("Job.delete", h)

JobRelease ==
    /\ JobLive
    /\ \E p \in Priorities, d \in Seconds :
         \E e \in (IF job.reserved THEN Envs(W0, command_release(job.id, p, d)) ELSE {Env(<<>>, 0, FALSE)}) :
           \E h \in {Job_release(W0, job, p, d, e)} : Commit("Job.release", h)

JobBury ==
    /\ JobLive
    /\ \E p \in Priorities :
         \E e \in (IF job.reserved THEN Envs(W0, command_bury(job.id, p)) ELSE {Env(<<>>, 0, FALSE)}) :
           \E h \in {Job_bury(W0, job, p, e)} : Commit("Job.bury", h)

JobKick ==
    /\ JobLive
    /\ \E e \in Envs(W0, command_kick_job(job.id)) : \E h \in {Job_kick(W0, job, e)} : Commit("Job.kick", h)

JobTouch ==
    /\ JobLive
    /\ \E e \in (IF job.reserved THEN Envs(W0, command_touch(job.id)) ELSE {Env(<<>>, 0, FALSE)}) :
         \E h \in {Job_touch(W0, job, e)} : Commit("Job.touch", h)

JobStats ==
    /\ JobLive
    /\ \E e \in Envs(W0, command_stats_job(job.id)) : \E h \in {Job_stats(W0, job, e)} : Commit("Job.stats", h)

JobReleaseDefault ==
    /\ JobLive
    /\ \E e1 \in Envs(W0, command_stats_job(job.id)) :
         LET p == Job_priority(W0, job, e1)
         IN  \E e2 \in (IF job.reserved
                        THEN Envs(p.w, command_release(job.id, p.res.val, DEFAULT_JOB_DELAY))
                        ELSE {Env(<<>>, 0, FALSE)}) :
               \E h \in {Job_release_default(W0, job, e1, e2)} : Commit("Job.release_default", h)

JobBuryDefault ==
    /\ JobLive
    /\ \E e1 \in Envs(W0, command_stats_job(job.id)) :
         LET p == Job_priority(W0, job, e1)
         IN  \E e2 \in (IF job.reserved THEN Envs(p.w, command_bury(job.id, p.res.val))
                        ELSE {Env(<<>>, 0, FALSE)}) :
               \E h \in {Job_bury_default(W0, job, e1, e2)} : Commit("Job.bury_default", h)

Next ==
    \/ New \/ Connect \/ Reconnect
    \/ Put \/ PutDefault \/ Reserve \/ ReserveWithTimeout
    \/ Kick \/ KickJob
    \/ Peek \/ PeekReady \/ PeekDelayed \/ PeekBuried
    \/ ListTubes \/ Using \/ UseTube \/ Watching \/ Watch \/ Ignore
    \/ Stats \/ StatsTube \/ StatsJob \/ PauseTube
    \/ Delete \/ ReleaseDefault \/ Release \/ BuryDefault \/ Bury \/ Touch
    \/ DropJob
    \/ JobDelete \/ JobRelease \/ JobReleaseDefault \/ JobBury \/ JobBuryDefault
    \/ JobKick \/ JobTouch \/ JobStats

Spec == Init /\ [][Next]_vars

----------------------------------------------------------------------------
(* The client against the server that follows the protocol.                *)

\* the connection is up and nothing is left unread on it
Live == stream = "Some" /\ ~peerClosed /\ inbuf = <<>>

\* the state after operation `op`, whose command is cmd, ended as h: the
\* server acted on the command if all of it was written
Served(op, cmd, h) ==
    /\ Returned(op, h)
    /\ server' = IF h.calls[1].fr.written = Command_build(cmd)
                 THEN ServerStep(server, cmd) ELSE server

\* connect: a new connection with the default watch list; the jobs the old
\* one had reserved are ready again
CConnect ==
    /\ SessionFree
    /\ ConnectStep("connect", W0, <<>>, TRUE)
    /\ server' = [server EXCEPT !.ready = @ \o server.held, !.held = <<>>,
                                !.watched = {DefaultTube}]

CPut ==
    /\ SessionFree /\ Live
    /\ server.next <= MaxJobs
    /\ \E body \in Payloads \cup {Hello}, p \in Priorities, t \in Seconds :
         \E e \in ServerEnvs(command_put(body, p, DEFAULT_JOB_DELAY, t)) :
           \E h \in {Beanstalkc_put(W0, body, p, DEFAULT_JOB_DELAY, t, e)} :
             Served("put", command_put(body, p, DEFAULT_JOB_DELAY, t), h)

\* reserve, when a job is ready in a watched tube (the server answers only then)
CReserve ==
    /\ SessionFree /\ Live
    /\ server.ready # <<>> /\ DefaultTube \in server.watched
    /\ \E e \in ServerEnvs(command_reserve(-1)) :
         \E h \in {Beanstalkc_reserve(W0, e)} : Served("reserve", command_reserve(-1), h)

CWatch ==
    /\ SessionFree /\ Live
    /\ \E t \in Tubes \cup {DefaultTube} : \E e \in ServerEnvs(command_watch(t)) :
         \E h \in {Beanstalkc_watch(W0, t, e)} : Served("watch", command_watch(t), h)

CIgnore ==
    /\ SessionFree /\ Live
    /\ \E t \in Tubes \cup {DefaultTube} : \E e \in ServerEnvs(command_ignore(t)) :
         \E h \in {Beanstalkc_ignore(W0, t, e)} : Served("ignore", command_ignore(t), h)

CJobDelete ==
    /\ JobLive /\ Live
    /\ \E e \in ServerEnvs(command_delete(job.id)) :
         \E h \in {Job_delete(W0, job, e)} : Served("Job.delete", command_delete(job.id), h)

NextConforming ==
    \/ CConnect \/ CPut \/ CReserve \/ CWatch \/ CIgnore \/ CJobDelete \/ DropJob

Conforming == Init /\ [][NextConforming]_vars

----------------------------------------------------------------------------
(* Beanstalkc::send on its own: commands with any two status sets, each    *)
(* answered with one status line.                                          *)

\* the statuses the two sets and the answers are drawn from
SendStatuses == {"Deleted", "NotFound", "Buried"}

\* Beanstalkc::send(cmd) on a connected session
Send ==
    /\ SessionFree /\ Live
    /\ \E id \in Ids, ok \in SUBSET SendStatuses, err \in SUBSET SendStatuses,
          st \in SendStatuses :
         \E s \in {Beanstalkc_send(build, W0,
                                   [command_delete(id) EXCEPT !.expected_ok_status = ok,
                                                              !.expected_error_status = err],
                                   Env(Line(<<TokenOf(st)>>), 0, FALSE))} :
           Commit("send", Done(s.w, <<s.call>>, s.res, NoJob))

NextSending == Connect \/ Send

Sending == Init /\ [][NextSending]_vars

----------------------------------------------------------------------------
(* The properties.  `last` records the operation that led to the current   *)
(* state: its name, the sends it made, its result, and the state before.   *)

JobOps ==
    {"Job.delete", "Job.release", "Job.release_default", "Job.bury", "Job.bury_default",
     "Job.touch", "Job.kick", "Job.stats"}

PeekOps == {"peek", "peek_ready", "peek_delayed", "peek_buried"}

ReserveOps == {"reserve", "reserve_with_timeout"}

\* the session operations that are one command sent through Beanstalkc::send
CommandOps ==
    {"put", "put_default", "kick", "kick_job", "tubes", "using", "use_tube", "watching",
     "watch", "ignore", "stats", "stats_tube", "pause_tube", "delete", "release_default",
     "release", "bury_default", "bury", "touch", "stats_job"} \cup PeekOps \cup ReserveOps

\* the sends of the last operation
Calls == {last.calls[i] : i \in 1..Len(last.calls)}

\* the framer of call c got past the write and read a status line
LineRead(c) == c.fr.kind # "None" /\ ~(c.fr.kind = "IoError" /\ c.fr.detail = "write")

\* the status line call c read
StatusLine(c) == Take(c.buf, ReadLineLen(c.buf))

\* the length that the status line of the framed response of call c declares
Declared(c) == get_int_param(c.fr.resp, BodyLenSlot(c.fr.resp.status)).val

\* C1: on a connected session, a framed response whose status is in the
\* command's expected_ok set is returned as it is (status, params, body); a
\* status in expected_error fails with CommandFailed(status); any other status
\* fails with UnexpectedResponse(status).
C1_SendClassifies ==
    \A c \in Calls :
      c.fr.kind = "Ok" =>
        /\ c.fr.resp.status \in c.cmd.expected_ok_status =>
             /\ c.res.kind = "Ok"
             /\ c.res.resp.status = c.fr.resp.status
             /\ c.res.resp.params = c.fr.resp.params
             /\ c.res.resp.body = c.fr.resp.body
        /\ c.fr.resp.status \in c.cmd.expected_error_status =>
             c.res.kind = "CommandFailed" /\ c.res.detail = c.fr.resp.status
        /\ c.fr.resp.status \notin c.cmd.expected_ok_status \cup c.cmd.expected_error_status =>
             c.res.kind = "UnexpectedResponse" /\ c.res.detail = c.fr.resp.status

\* Job.release_default whose stats-job was answered OK with a body and whose
\* release was answered NOT_FOUND
C1_Witness ==
    /\ last.op = "Job.release_default"
    /\ Len(last.calls) = 2
    /\ last.calls[1].res.kind = "Ok"
    /\ last.calls[1].res.resp.body = SomeBody(StatsBody)
    /\ last.calls[2].res.kind = "CommandFailed"
    /\ last.calls[2].res.detail = "NotFound"

\* C2 as claimed: Job.delete on a Job whose reserved flag is false sends
\* nothing to the Session and returns success.
C2_DeleteIsNoOp ==
    (last.op = "Job.delete" /\ ~last.before.job.reserved) =>
        last.calls = <<>> /\ last.res.kind = "Ok"

\* C2 amended: Job.delete on a Job whose reserved flag is false calls the
\* Session's delete once, with the command `delete <id>`, ends as that call
\* ends, and leaves the flag false.
C2_DeleteAlwaysSends ==
    (last.op = "Job.delete" /\ ~last.before.job.reserved) =>
        /\ Len(last.calls) = 1
        /\ last.calls[1].cmd = command_delete(last.before.job.id)
        /\ last.res.kind = last.calls[1].res.kind
        /\ job = last.before.job

\* a delete on a peeked or already released Job that reached the server and
\* was answered DELETED
C2_Witness ==
    /\ last.op = "Job.delete"
    /\ ~last.before.job.reserved
    /\ last.res.kind = "Ok"
    /\ out = <<Command_build(command_delete(last.before.job.id))>>

\* C3: Job.release and Job.bury on a Job whose reserved flag is false send
\* nothing, return success and leave the Job as it was.
C3_ReleaseBuryNoOp ==
    (last.op \in {"Job.release", "Job.bury"} /\ ~last.before.job.reserved) =>
        /\ last.calls = <<>>
        /\ out = <<>>
        /\ last.res.kind = "Ok"
        /\ job = last.before.job
        /\ inbuf = last.before.inbuf

C3_Witness ==
    /\ last.op = "Job.bury"
    /\ ~last.before.job.reserved
    /\ last.calls = <<>>
    /\ last.res.kind = "Ok"

\* C4: a Job is created reserved exactly when reserve or reserve_with_timeout
\* produced it; peek, peek_ready, peek_delayed and peek_buried create it with
\* reserved = false.
C4_ReservedAtCreation ==
    (job.some /\ ~last.before.job.some) =>
        /\ last.op \in ReserveOps \cup PeekOps
        /\ job.reserved <=> last.op \in ReserveOps
        /\ last.op \in PeekOps => ~job.reserved

C4_Witness ==
    /\ last.op = "peek_buried"
    /\ ~last.before.job.some
    /\ job.some
    /\ ~job.reserved
    /\ job.body = CRLF

\* C5: once the reserved flag of a Job is false, no delete, release,
\* release_default, bury, bury_default, touch, kick or stats call on that Job
\* makes it true again.
C5_ReservedMonotone ==
    [][(last'.op \in JobOps /\ ~job.reserved) => ~job'.reserved]_vars

\* a call on a Job that is not reserved fails at the server
C5_Witness ==
    /\ last.op \in JobOps
    /\ ~last.before.job.reserved
    /\ last.calls # <<>>
    /\ last.res.kind = "CommandFailed"

\* C6: whether a body follows depends on the status alone: for Ok the length is
\* argument slot 0, for Reserved and Found argument slot 1; for every other
\* status nothing is read after the status line and the body is absent.
C6_BodyRuleByStatus ==
    \A c \in Calls :
      c.fr.kind = "Ok" =>
        /\ c.fr.resp.body.some <=> c.fr.resp.status \in {"Ok", "Reserved", "Found"}
        /\ c.fr.resp.status = "Ok" =>
             c.fr.consumed - c.fr.lineLen = (ParseU64(c.fr.resp.params[1]).val + 2) % WordMod
        /\ c.fr.resp.status \in {"Reserved", "Found"} =>
             c.fr.consumed - c.fr.lineLen = (ParseU64(c.fr.resp.params[2]).val + 2) % WordMod
        /\ c.fr.resp.status \notin {"Ok", "Reserved", "Found"} =>
             c.fr.consumed = c.fr.lineLen /\ c.fr.resp.body = NoBody

\* RESERVED 42 5 with its body: the length is taken from slot 1, not slot 0
C6_Witness ==
    \E c \in Calls :
      /\ c.fr.kind = "Ok"
      /\ c.fr.resp.status = "Reserved"
      /\ c.fr.resp.params = <<Dec(42), Dec(5)>>
      /\ c.fr.resp.body = SomeBody(Hello)
      /\ c.fr.consumed - c.fr.lineLen = 7

\* C7: a body of declared length n takes exactly n + 2 bytes after the status
\* line, and the body stored is exactly the first n of them, whatever they are.
C7_BodyByDeclaredLength ==
    \A c \in Calls :
      (c.fr.kind = "Ok" /\ c.fr.resp.body.some) =>
        /\ c.fr.consumed - c.fr.lineLen = Declared(c) + 2
        /\ c.fr.resp.body.bytes = Take(Drop(c.buf, c.fr.lineLen), Declared(c))
        /\ Len(c.fr.resp.body.bytes) = Declared(c)

\* C8 as claimed: an empty status line fails with ProtocolError.
C8_EmptyLineIsProtocolError ==
    \A c \in Calls :
      (LineRead(c) /\ TrimIsEmpty(StatusLine(c))) => c.res.kind = "ProtocolError"

\* C8 amended: an empty status line (nothing arrived before the stream ended,
\* or only whitespace did) fails with UnexpectedResponse("empty response").
C8_EmptyLineIsUnexpectedResponse ==
    \A c \in Calls :
      (LineRead(c) /\ TrimIsEmpty(StatusLine(c))) =>
        c.res.kind = "UnexpectedResponse" /\ c.res.detail = "empty response"

\* the stream ended before any byte of a status line arrived
C8_Witness ==
    \E c \in Calls :
      /\ LineRead(c)
      /\ c.buf = <<>>
      /\ c.fr.eof
      /\ c.res.kind = "UnexpectedResponse"

\* C9: a command operation on a session that has no stream fails with
\* ConnectionError, writes nothing and leaves the session as it was; so does
\* every send made without a stream.
C9_NoStreamIsConnectionError ==
    /\ (last.op \in CommandOps /\ last.before.stream = "None") =>
         /\ last.res.kind = "ConnectionError"
         /\ out = <<>>
         /\ stream = "None"
         /\ inbuf = last.before.inbuf
         /\ peerClosed = last.before.peerClosed
         /\ job = last.before.job
         /\ alive
    /\ last.before.stream = "None" =>
         \A c \in Calls : c.res.kind = "ConnectionError" /\ c.fr = NoFrame

C9_Witness ==
    /\ last.op = "put"
    /\ last.before.stream = "None"
    /\ Len(last.calls) = 1
    /\ last.res.kind = "ConnectionError"
    /\ out = <<>>

\* C10: reconnect always attempts connect after the close step, and ends as
\* connect ends: success with a fresh stream, or the connect error.
C10_ReconnectIsCloseThenConnect ==
    last.op = "reconnect" =>
        /\ last.connect \in {"ok", "failed"}
        /\ last.connect = "ok" =>
             last.res.kind = "Ok" /\ stream = "Some" /\ inbuf = <<>> /\ ~peerClosed
        /\ last.connect = "failed" =>
             last.res.kind = "ConnectionError" /\ last.res.detail = "connect"

\* C11: no command is written to the stream while bytes that the peer sent
\* before are still unread on it.
C11_NoWriteWhileUnread ==
    \A i \in 1..Len(last.calls) :
      last.calls[i].fr.written # <<>> =>
        (IF i = 1 THEN last.before.inbuf
         ELSE Drop(last.calls[i - 1].buf, last.calls[i - 1].fr.consumed)) = <<>>

C15_WholeCommandWritten ==
    \A c \in Calls : LineRead(c) => c.fr.written = Command_build(c.cmd)

\* C16: when the stream ends before the declared body length plus two bytes
\* has arrived the send fails with IoError, and no Response carries a body
\* shorter than its status line declares.
C16_ShortBodyIsIoError ==
    \A c \in Calls :
      LET parts == split_whitespace(StatusLine(c))
          st == Status_from_str(parts[1])
          slot == BodyLenSlot(st.status)
          n == ParseU64(parts[slot + 2])
          rest == Drop(c.buf, ReadLineLen(c.buf))
      IN  (/\ LineRead(c)
           /\ ~TrimIsEmpty(StatusLine(c))
           /\ st.ok /\ slot >= 0 /\ Len(parts) >= slot + 2 /\ n.ok) =>
            /\ Len(rest) < n.val + 2 => c.res.kind = "IoError"
            /\ c.fr.kind = "Ok" => Len(c.fr.resp.body.bytes) = n.val

\* C17: Job.touch on a Job that is not reserved returns success without a
\* send; Job.kick sends kick-job for the Job's id whether the Job is reserved
\* or not, and leaves the Job as it was.
C17_TouchGuardedKickNot ==
    /\ (last.op = "Job.touch" /\ ~last.before.job.reserved) =>
         last.calls = <<>> /\ out = <<>> /\ last.res.kind = "Ok" /\ job = last.before.job
    /\ last.op = "Job.kick" =>
         /\ Len(last.calls) = 1
         /\ last.calls[1].cmd = command_kick_job(last.before.job.id)
         /\ job = last.before.job

\* kick on a Job that is not reserved, sent whole and answered KICKED
C17_Witness ==
    /\ last.op = "Job.kick"
    /\ ~last.before.job.reserved
    /\ out = <<Command_build(command_kick_job(job.id))>>
    /\ last.res.kind = "Ok"

\* C18: Job.release_default and Job.bury_default first send stats-job, then
\* release / bury with the `pri` of the answer; when the stats call fails, or
\* `pri` is absent or no number, with DEFAULT_JOB_PRIORITY, and the result is
\* that of the release / bury, not of the stats call.
C18_DefaultsUseStatsPriority ==
    (last.op \in {"Job.release_default", "Job.bury_default"} /\ ~aborted) =>
        LET stats == last.calls[1]
            pri == IF stats.res.kind = "Ok" /\ stats.fr.resp.body.bytes = StatsBody
                   THEN 5 ELSE DEFAULT_JOB_PRIORITY
        IN  /\ stats.cmd = command_stats_job(last.before.job.id)
            /\ IF last.before.job.reserved
               THEN /\ Len(last.calls) = 2
                    /\ last.calls[2].cmd =
                         (IF last.op = "Job.release_default"
                          THEN command_release(job.id, pri, DEFAULT_JOB_DELAY)
                          ELSE command_bury(job.id, pri))
                    /\ last.res.kind = last.calls[2].res.kind
               ELSE Len(last.calls) = 1 /\ last.res.kind = "Ok"

\* stats-job fails, the release is sent with the default priority and succeeds
C18_Witness ==
    /\ last.op = "Job.release_default"
    /\ Len(last.calls) = 2
    /\ last.calls[1].res.kind = "ProtocolError"
    /\ last.calls[2].cmd = command_release(job.id, DEFAULT_JOB_PRIORITY, DEFAULT_JOB_DELAY)
    /\ last.res.kind = "Ok"
    /\ ~job.reserved

\* C19: after a successful reconnect nothing of the prior stream is left to
\* read: what the peer had sent on it and the session had not consumed is gone.
C19_ReconnectDiscardsBuffer ==
    (last.op = "reconnect" /\ last.connect = "ok") =>
        inbuf = <<>> /\ ~peerClosed /\ stream = "Some"

\* bytes of the prior stream were still unread after the close step
C19_Witness ==
    /\ last.op = "reconnect"
    /\ last.connect = "ok"
    /\ Len(last.calls) = 1
    /\ Drop(last.calls[1].buf, last.calls[1].fr.consumed) # <<>>
    /\ inbuf = <<>>

\* C20 as claimed: every call of a command operation on a connected session
\* writes exactly one command, whatever the outcome.
C20_ExactlyOneCommandWritten ==
    (last.op \in CommandOps /\ last.before.stream = "Some") =>
        out = <<Command_build(last.calls[1].cmd)>>

\* C20 amended: every call of a command operation on a connected session makes
\* one send: at most one write, of the command or of a prefix of it, and at
\* most one response read (one status line, and a body only after a
\* body-bearing status).
C20_NoRetry ==
    (last.op \in CommandOps /\ last.before.stream = "Some") =>
        /\ Len(last.calls) = 1
        /\ Len(out) <= 1
        /\ \A i \in 1..Len(out) :
             out[i] = Take(Command_build(last.calls[1].cmd), Len(out[i]))
        /\ last.calls[1].fr.lineLen <= ReadLineLen(last.calls[1].buf)
        /\ last.calls[1].fr.consumed >= last.calls[1].fr.lineLen
        /\ last.calls[1].fr.consumed > last.calls[1].fr.lineLen =>
             Status_from_str(split_whitespace(StatusLine(last.calls[1]))[1]).status
                 \in {"Ok", "Reserved", "Found"}

\* a delete that failed at the server: one command written, one response read
C20_Witness ==
    /\ last.op = "delete"
    /\ last.res.kind = "CommandFailed"
    /\ out = <<Command_build(last.calls[1].cmd)>>
    /\ last.calls[1].fr.consumed = Len(last.calls[1].buf)

\* C12: against a server that follows the protocol, when put of body B has
\* returned id i and the job is the only one ready, the reserve that follows
\* returns a Job with id i, body B and reserved = true; delete on a reserved
\* Job makes one send of `delete i`, and on the DELETED reply the Job's
\* reserved flag is false and the call succeeds.
C12_PutReserveDelete ==
    [][/\ (/\ last.op = "put" /\ last.res.kind = "Ok" /\ Len(server.ready) = 1
           /\ last'.op = "reserve" /\ last'.res.kind = "Ok") =>
            /\ job'.some
            /\ job'.id = last.res.val
            /\ job'.body = last.calls[1].cmd.body.bytes
            /\ job'.reserved
       /\ (last'.op = "Job.delete" /\ job.reserved) =>
            /\ Len(last'.calls) = 1
            /\ Len(out') = 1
            /\ last'.calls[1].cmd = command_delete(job.id)
            /\ last'.calls[1].buf = Line(<<TokenOf("Deleted")>>) =>
                 last'.res.kind = "Ok" /\ ~job'.reserved
      ]_vars

\* put of "hello" returned 1, reserve returned that job, delete was answered DELETED
C12_Witness ==
    /\ last.op = "Job.delete"
    /\ last.before.job = Job_new(1, Hello, TRUE)
    /\ last.res.kind = "Ok"
    /\ job = Job_new(1, Hello, FALSE)
    /\ out = <<Command_build(command_delete(1))>>
    /\ server.next = 2 /\ server.ready = <<>> /\ server.held = <<>>

\* C13: against a server that follows the protocol, watch(t) on a tube that
\* is not watched returns one more than the number of tubes watched before,
\* and ignore(t) on the only watched tube, once answered, fails with
\* CommandFailed(NotIgnored).
C13_WatchCountsIgnoreFails ==
    [][/\ (/\ last'.op = "watch" /\ last'.res.kind = "Ok"
           /\ last'.calls[1].cmd.args[1] \notin server.watched) =>
            last'.res.val = Cardinality(server.watched) + 1
       /\ (/\ last'.op = "ignore"
           /\ server.watched = {last'.calls[1].cmd.args[1]}
           /\ last'.calls[1].buf # <<>>) =>
            last'.res.kind = "CommandFailed" /\ last'.res.detail = "NotIgnored"
      ]_vars

\* `jobs` is the only tube watched and ignore("jobs") has failed
C13_Witness ==
    /\ last.op = "ignore"
    /\ last.calls[1].cmd = command_ignore(Jobs)
    /\ server.watched = {Jobs}
    /\ last.res.kind = "CommandFailed"
    /\ last.res.detail = "NotIgnored"

\* C21: pause_tube whose send was answered with the status NOT_FOUND fails
\* with CommandFailed(NotFound), not with UnexpectedResponse.
C21_PauseNotFoundIsCommandFailed ==
    (/\ last.op = "pause_tube"
     /\ Len(last.calls) = 1
     /\ last.calls[1].fr.kind = "Ok"
     /\ last.calls[1].fr.resp.status = "NotFound") =>
        last.res.kind = "CommandFailed" /\ last.res.detail = "NotFound"

\* pause-tube written whole and answered with the line NOT_FOUND
C21_Witness ==
    /\ last.op = "pause_tube"
    /\ out = <<Command_build(command_pause_tube(Jobs, 2))>>
    /\ last.calls[1].buf = Line(<<TokenOf("NotFound")>>)
    /\ last.res.kind = "CommandFailed"
    /\ last.res.detail = "NotFound"

\* C22: when Job.delete, Job.release or Job.bury calls the Session and the
\* call returns an error, the Job (id, body, reserved) is as it was and the
\* error of the send is what is returned; id and body never change, and the
\* flag changes, to false, only when the send was answered with a status of
\* the command's expected_ok set.
C22_FailureLeavesJob ==
    (last.op \in {"Job.delete", "Job.release", "Job.bury"} /\ last.calls # <<>>) =>
        /\ Len(last.calls) = 1
        /\ job.some /\ job.id = last.before.job.id /\ job.body = last.before.job.body
        /\ last.res.kind \notin {"Ok", "Abort"} =>
             /\ job = last.before.job
             /\ last.res.kind = last.calls[1].res.kind
             /\ last.res.detail = last.calls[1].res.detail
        /\ job.reserved # last.before.job.reserved =>
             /\ ~job.reserved
             /\ last.res.kind = "Ok"
             /\ last.calls[1].fr.kind = "Ok"
             /\ last.calls[1].fr.resp.status \in last.calls[1].cmd.expected_ok_status

\* release on a reserved Job answered NOT_FOUND: the Job is still reserved
C22_Witness ==
    /\ last.op = "Job.release"
    /\ last.before.job.reserved
    /\ last.calls[1].buf = Line(<<TokenOf("NotFound")>>)
    /\ last.res.kind = "CommandFailed"
    /\ job = last.before.job

\* C23: a send that ends in CommandFailed or UnexpectedResponse has taken the
\* whole response from the stream before it classified the status: the status
\* line, and after a body-bearing status the declared body length plus two
\* bytes; what the stream holds next is the start of the next response.
C23_WholeResponseConsumed ==
    \A c \in Calls :
      c.res.kind \in {"CommandFailed", "UnexpectedResponse"} =>
        IF c.fr.kind = "Ok"
        THEN c.fr.consumed =
               ReadLineLen(c.buf)
                 + (IF BodyLenSlot(c.fr.resp.status) >= 0 THEN Declared(c) + 2 ELSE 0)
        ELSE c.fr.consumed = ReadLineLen(c.buf)

\* C24: the result of Beanstalkc::send on a framed response is fixed by the
\* membership of its status in the command's two sets, with expected_ok
\* looked up first: a status that is in both sets yields success with that
\* Response, never CommandFailed.
C24_ExpectedOkFirst ==
    \A c \in Calls :
      c.fr.kind = "Ok" =>
        /\ c.res.kind =
             (IF c.fr.resp.status \in c.cmd.expected_ok_status THEN "Ok"
              ELSE IF c.fr.resp.status \in c.cmd.expected_error_status THEN "CommandFailed"
              ELSE "UnexpectedResponse")
        /\ c.fr.resp.status \in c.cmd.expected_ok_status \cap c.cmd.expected_error_status =>
             c.res.kind = "Ok" /\ c.res.resp = c.fr.resp

\* NOT_FOUND is in both sets of the command and the answer is NOT_FOUND
C24_Witness ==
    /\ last.op = "send"
    /\ "NotFound" \in last.calls[1].cmd.expected_ok_status
    /\ "NotFound" \in last.calls[1].cmd.expected_error_status
    /\ last.calls[1].fr.resp.status = "NotFound"
    /\ last.res.kind = "Ok"

\* C25: Job.release_default and Job.bury_default on a Job that is not reserved
\* make exactly one send, of stats-job for the Job's id, then return success
\* with no release or bury sent and the Job as it was.
C25_DefaultsOnUnreserved ==
    (last.op \in {"Job.release_default", "Job.bury_default"} /\ ~last.before.job.reserved) =>
        /\ Len(last.calls) = 1
        /\ last.calls[1].cmd = command_stats_job(last.before.job.id)
        /\ last.res.kind = "Ok"
        /\ job = last.before.job

\* C26: for every status line OK / RESERVED / FOUND whose length slot holds a
\* number L of the unsigned word range, the framer returns an error value or
\* reads exactly L + 2 bytes after the line; it never stops the program and
\* never reads a count that differs from L + 2.
C26_LengthPlusTwoIsSafe ==
    \A c \in Calls :
      LET parts == split_whitespace(StatusLine(c))
          st == Status_from_str(parts[1])
          slot == BodyLenSlot(st.status)
          L == ParseU64(parts[slot + 2])
      IN  (/\ LineRead(c)
           /\ ~TrimIsEmpty(StatusLine(c))
           /\ st.ok /\ slot >= 0 /\ Len(parts) >= slot + 2 /\ L.ok) =>
            /\ c.fr.kind # "Abort"
            /\ c.fr.kind \in {"Ok", "IoError", "ProtocolError", "UnexpectedResponse"}
            /\ c.fr.kind = "Ok" => c.fr.consumed - c.fr.lineLen = L.val + 2

\* C27: a session that has a stream keeps it through every operation and
\* every error, as long as the session exists: its sends all reach the framer,
\* none fails with ConnectionError, and a stream that has ended is still the
\* one used by the next operation unless that operation connects anew.
C27_StreamStaysPresent ==
    [][(stream = "Some" /\ alive' /\ last'.op # "new") =>
         /\ stream' = "Some"
         /\ \A i \in 1..Len(last'.calls) :
              /\ last'.calls[i].fr.kind # "None"
              /\ last'.calls[i].res.kind # "ConnectionError"
         /\ (peerClosed /\ last'.op \notin {"connect", "reconnect"}) => peerClosed'
      ]_vars

\* stats on a stream that had ended before: the write fails, the stream stays
C27_Witness ==
    /\ last.op = "stats"
    /\ last.before.stream = "Some"
    /\ last.before.peerClosed
    /\ last.res.kind = "IoError"
    /\ last.calls[1].fr.kind = "IoError"
    /\ stream = "Some"
    /\ peerClosed

====
